---- MODULE Spec2Model ----
(***************************************************************************)
(* A state-machine model of the heplify packet decoder                     *)
(* (package decoder: Decoder.Process, Decoder.processTransport,            *)
(* Decoder.ProcessHEPPacket, PacketQueue and the periodic tasks).          *)
(*                                                                         *)
(* A frame is described by what the layer parser yields for it: the chain  *)
(* of recognised layer types and the fields of the layer structs the       *)
(* parser filled (d.d1q, d.gre, d.ip4, d.ip6, d.udp, d.tcp, d.sctp,        *)
(* d.dns).  Payloads are sequences of bytes (0..255).  The layer structs   *)
(* are only ever read for layers that are in the chain of the current      *)
(* decode pass, so they are carried with the frame and not kept between    *)
(* frames.                                                                 *)
(***************************************************************************)
EXTENDS Integers, Sequences, FiniteSets, TLC

VARIABLES
    cfg,        \* config.Cfg, fixed at construction
    queue,      \* PacketQueue
    stats,      \* the counters of the decoder
    cache,      \* d.dedupCache
    frags,      \* d.defrag4 and d.defrag6
    asm,        \* segments handed to d.asm and not yet flushed
    pc,         \* where the decode path is: "idle", "send", "crashed", "exited"
    ctx,        \* the frame in (or last in) Process and the state of its loop
    hep,        \* the record ProcessHEPPacket is about to send, if any
    sent,       \* every record a send on PacketQueue completed for, in order
    delivered,  \* every record the consumer received, in order
    budget,     \* frames the capture source has yet to deliver
    now,        \* ticks of the dedup cache's clock so far
    log         \* one entry per frame delivered to Process, in order

vars == <<cfg, queue, stats, cache, frags, asm, pc, ctx, hep, sent, delivered,
          budget, now, log>>

----------------------------------------------------------------------------
(* Bytes and byte strings                                                  *)

\* A nil slice.  Bytes are 0..255, so <<-1>> is no byte string.
Nil == <<-1>>

Bytes(p) == IF p = Nil THEN <<>> ELSE p

\* "CSeq", "Cseq", "Sip0"
TokCSeq == <<67, 83, 101, 113>>
TokCseq == <<67, 115, 101, 113>>
TokSip0 == <<83, 105, 112, 48>>

\* s[from:] of Go (from is 0-based)
SliceFrom(s, from) == SubSeq(s, from + 1, Len(s))

\* s[:to] of Go
SliceTo(s, to) == SubSeq(s, 1, to)

\* bytes.Index(s, t): the 0-based position of the first occurrence, or -1
Index(s, t) ==
    LET hits == {i \in 0..(Len(s) - Len(t)) : SubSeq(s, i + 1, i + Len(t)) = t}
    IN  IF hits = {} THEN -1
        ELSE CHOOSE i \in hits : \A j \in hits : i <= j

----------------------------------------------------------------------------
(* Statistics counters and records                                         *)

CounterNames == {"fragCount", "dupCount", "dnsCount", "ip4Count", "ip6Count",
                 "rtcpCount", "rtcpFailCount", "tcpCount", "hepCount",
                 "sctpCount", "udpCount", "unknownCount"}

ZeroStats == [n \in CounterNames |-> 0]

\* atomic.AddUint64(&d.<name>, 1)
Inc(st, name) == [st EXCEPT ![name] = @ + 1]

\* &Packet{Version, Protocol, SrcIP, ...}: the fields left out are zero / nil
NewPacket(ver, proto, src) ==
    [Version |-> ver, Protocol |-> proto, SrcIP |-> src,
     SrcPort |-> 0, DstPort |-> 0, ProtoType |-> 0,
     Payload |-> Nil, CID |-> Nil, Vlan |-> 0]

----------------------------------------------------------------------------
(* Collaborators of the decoder package whose code is not in the source    *)
(* tree.  Their answers are inputs: o is the answer drawn for this frame.  *)

\* A correlation identifier and the JSON a matched RTCP report is turned into
SomeCID == <<99, 105, 100>>
RtcpJSON == <<123, 125>>
LogProtoType == 100

\* correlateRTCP(srcIP, srcPort, dstIP, dstPort, payload) -> (payload, cid)
correlateRTCP(o, payload) ==
    IF o.corr = "hit" THEN [Payload |-> RtcpJSON, CID |-> SomeCID]
    ELSE [Payload |-> Nil, CID |-> Nil]

\* correlateLOG(payload) -> (protoType, cid)
correlateLOG(o, payload) ==
    CASE o.corr = "hit"     -> [ProtoType |-> LogProtoType, CID |-> SomeCID]
      [] o.corr = "partial" -> [ProtoType |-> LogProtoType, CID |-> Nil]
      [] OTHER              -> [ProtoType |-> 0, CID |-> Nil]

\* protos.ParseDNS(&d.dns): the bytes extracted from the parsed DNS layer
ParseDNS(dns) == dns

----------------------------------------------------------------------------
(* protos.NewRTP and save.SendRTP                                          *)

\* save.SendRTP: os.Exit(2) when net.DialUDP fails, else the datagram is
\* written.  TRUE when the process exits.
SendRTPExits(o) == ~o.dial

\* protos.NewRTP(raw): TRUE when the call ends the process.  The RTP payload
\* type is the low seven bits of the second byte.
NewRTPExits(o, raw) ==
    /\ Len(raw) >= 12
    /\ raw[2] % 128 = 99
    /\ SendRTPExits(o)

----------------------------------------------------------------------------
(* Decoder.processTransport                                                *)

\* The outcome of a call: the counters after it, the record handed to
\* PacketQueue (none or one), whether the call panicked or ended the
\* process, and the number of TCP segments handed to the assembler.
Outcome(st, send, fate, nasm, pkt) ==
    [stats |-> st, send |-> send, fate |-> fate, asm |-> nasm, pkt |-> pkt]

\* Lines 454-470: the generic CSeq classification
CSeqPos(payload) ==
    IF Index(Bytes(payload), TokCSeq) > -1
    THEN Index(Bytes(payload), TokCSeq)
    ELSE Index(Bytes(payload), TokCseq)

TagSIP(pkt) ==
    IF CSeqPos(pkt.Payload) > -1 THEN [pkt EXCEPT !.ProtoType = 1] ELSE pkt

\* A faulty variant: the payload is never trimmed
StripSip0Never(pkt) == pkt

StripSip0(pkt) ==
    LET cPos == CSeqPos(pkt.Payload)
        s    == Index(SliceTo(Bytes(pkt.Payload), cPos), TokSip0)
    IN  IF cPos > 16 /\ s > -1
        THEN [pkt EXCEPT !.Payload = SliceFrom(pkt.Payload, s + 4)]
        ELSE pkt

Classify(pkt) == StripSip0(TagSIP(pkt))

\* A faulty variant: every record is sent
EmitAlways(p, st) == Outcome(st, <<p>>, "ok", 0, p)

\* Lines 466-470: the record is sent or counted as unknown
Emit(p, st) ==
    IF p.ProtoType > 0 /\ p.Payload # Nil
    THEN Outcome(st, <<p>>, "ok", 0, p)
    ELSE Outcome(Inc(st, "unknownCount"), <<>>, "ok", 0, p)

Generic(pkt, st) == Emit(Classify(pkt), st)

\* A faulty variant: only type 200 is taken for RTCP
IsRTCPTypeSR(b) == b = 200

IsRTCPType(b) == b \in {200, 201, 207}

\* A layer either ends the call with an outcome or lets the loop go on with
\* the record and the counters it leaves.
Return(out) == [ret |-> TRUE, out |-> out, pkt |-> out.pkt, st |-> out.stats]

GoOn(pkt, st) ==
    [ret |-> FALSE, out |-> Outcome(st, <<>>, "ok", 0, pkt), pkt |-> pkt,
     st |-> st]

\* Lines 364-365: the VLAN tag
Dot1QLayer(c, pkt, st) == GoOn([pkt EXCEPT !.Vlan = c.vlan], st)

\* A faulty variant: only payloads of less than two bytes are too small
TooSmallLax(udp) == Len(udp.pl) < 2

\* Line 369: the payload is too small to be looked at
TooSmall(udp) == Len(udp.pl) < 16

\* Line 391: (udp.Payload[0] & 0xc0) >> 6
VersionBits(pl) == pl[1] \div 64

\* Lines 392 and 403: the parity of the two ports
BothOdd(udp) == udp.sp % 2 # 0 /\ udp.dp % 2 # 0

\* A faulty variant: the even/even branch of line 403 is never taken
BothEvenNever(udp) == FALSE

BothEven(udp) == udp.sp % 2 = 0 /\ udp.dp % 2 = 0

\* Lines 367-414: the UDP layer
UDPLayer(c, o, pkt, st) ==
    LET udp == c.udp
        p1  == [pkt EXCEPT !.SrcPort = udp.sp, !.DstPort = udp.dp,
                           !.Payload = udp.pl]
        st1 == Inc(st, "udpCount")
    IN  IF TooSmall(udp) THEN Return(Outcome(st, <<>>, "ok", 0, pkt))
        ELSE IF c.mode = "SIPLOG" /\ udp.dp = 514
        THEN LET r  == correlateLOG(o, udp.pl)
                 p2 == [p1 EXCEPT !.ProtoType = r.ProtoType, !.CID = r.CID]
             IN  IF p2.ProtoType > 0 /\ p2.CID # Nil
                 THEN Return(Outcome(st1, <<p2>>, "ok", 0, p2))
                 ELSE Return(Outcome(st1, <<>>, "ok", 0, p2))
        ELSE IF c.mode # "SIP" /\ VersionBits(udp.pl) = 2
        THEN IF IsRTCPType(udp.pl[2]) /\ BothOdd(udp)
             THEN LET r  == correlateRTCP(o, udp.pl)
                      p2 == [p1 EXCEPT !.Payload = r.Payload, !.CID = r.CID]
                      p3 == [p2 EXCEPT !.ProtoType = 5]
                  IN  IF p2.Payload # Nil
                      THEN Return(Outcome(Inc(st1, "rtcpCount"), <<p3>>, "ok",
                                          0, p3))
                      ELSE Return(Outcome(Inc(st1, "rtcpFailCount"), <<>>,
                                          "ok", 0, p2))
             ELSE IF BothEven(udp)
             THEN IF c.mode = "SIPRTP" /\ NewRTPExits(o, udp.pl)
                  THEN Return(Outcome(st1, <<>>, "exit", 0, p1))
                  ELSE Return(Outcome(st1, <<>>, "ok", 0,
                                      [p1 EXCEPT !.Payload = Nil]))
             ELSE GoOn(p1, st1)
        ELSE GoOn(p1, st1)

\* A faulty variant: the segment is classified directly although stream
\* reassembly is enabled
TCPLayerDirect(c, pkt, st) ==
    GoOn([pkt EXCEPT !.SrcPort = c.tcp.sp, !.DstPort = c.tcp.dp,
                     !.Payload = c.tcp.pl], Inc(st, "tcpCount"))

\* Lines 416-427: the TCP layer
TCPLayer(c, pkt, st) ==
    LET p1  == [pkt EXCEPT !.SrcPort = c.tcp.sp, !.DstPort = c.tcp.dp,
                           !.Payload = c.tcp.pl]
        st1 == Inc(st, "tcpCount")
    IN  IF c.reassembly THEN Return(Outcome(st1, <<>>, "ok", 1, p1))
        ELSE GoOn(p1, st1)

\* A faulty variant: IDATA chunks are cut like DATA chunks
SCTPStartSame(b) == IF b \in {0, 64} THEN 16 ELSE -1

\* Lines 432-437: where the application payload starts for chunk type b,
\* -1 when pkt.Payload is left unset
SCTPStart(b) ==
    CASE b = 0  -> 16
      [] b = 64 -> 20
      [] OTHER  -> -1

\* Lines 429-441: the SCTP layer.  Indexing or slicing beyond the payload
\* panics.
SCTPLayer(c, pkt, st) ==
    LET pl == c.sctp.pl
        p1 == [pkt EXCEPT !.SrcPort = c.sctp.sp, !.DstPort = c.sctp.dp]
    IN  IF Len(pl) < 9 THEN Return(Outcome(st, <<>>, "panic", 0, p1))
        ELSE IF SCTPStart(pl[9]) < 0 THEN GoOn(p1, Inc(st, "sctpCount"))
        ELSE IF Len(pl) < SCTPStart(pl[9])
        THEN Return(Outcome(st, <<>>, "panic", 0, p1))
        ELSE GoOn([p1 EXCEPT !.Payload = SliceFrom(pl, SCTPStart(pl[9]))],
                  Inc(st, "sctpCount"))

\* A faulty variant: the DNS layer is classified in every mode
DNSLayerAnyMode(c, pkt, st) ==
    Return(Outcome(Inc(st, "dnsCount"),
                   <<[pkt EXCEPT !.ProtoType = 53, !.Payload = ParseDNS(c.dns)]>>,
                   "ok", 0,
                   [pkt EXCEPT !.ProtoType = 53, !.Payload = ParseDNS(c.dns)]))

\* Lines 443-450: the DNS layer
DNSLayer(c, pkt, st) ==
    IF c.mode = "SIPDNS"
    THEN LET p1 == [pkt EXCEPT !.ProtoType = 53, !.Payload = ParseDNS(c.dns)]
         IN  Return(Outcome(Inc(st, "dnsCount"), <<p1>>, "ok", 0, p1))
    ELSE GoOn(pkt, st)

\* Lines 363-451: the switch on one found layer type
Layer(c, o, tag, pkt, st) ==
    CASE tag = "Dot1Q" -> Dot1QLayer(c, pkt, st)
      [] tag = "UDP"   -> UDPLayer(c, o, pkt, st)
      [] tag = "TCP"   -> TCPLayer(c, pkt, st)
      [] tag = "SCTP"  -> SCTPLayer(c, pkt, st)
      [] tag = "DNS"   -> DNSLayer(c, pkt, st)
      [] OTHER -> GoOn(pkt, st)

\* Lines 362-471: the loop over the found layer types, from chain[k] on,
\* followed by the generic classification.
RECURSIVE Layers(_, _, _, _, _)
AfterLayer(c, o, k, l) ==
    IF l.ret THEN l.out ELSE Layers(c, o, k + 1, l.pkt, l.st)

Layers(c, o, k, pkt, st) ==
    IF k > Len(c.chain) THEN Generic(pkt, st)
    ELSE AfterLayer(c, o, k, Layer(c, o, c.chain[k], pkt, st))

\* Lines 344-360: the source-address filter and the new record.  c is the
\* call: the found layer types, the layer structs, the configuration and
\* the IP version, protocol and source address passed in.
processTransport(c, o, st) ==
    IF c.src \in c.discardSrcIP THEN Outcome(st, <<>>, "ok", 0, NewPacket(0, 0, 0))
    ELSE Layers(c, o, 1, NewPacket(c.ver, c.proto, c.src), st)

----------------------------------------------------------------------------
(* Frames and the layer parsers                                            *)
(*                                                                         *)
(* A decode result has: chain, the layer types found; vlan (d.d1q); df,    *)
(* mf, off, proto, src and ippl (d.ip4 / d.ip6: the flags, the fragment    *)
(* offset in units of 8 bytes, the next protocol, the source address and   *)
(* the IP payload); id, the fragmentation identity; bad, a fragment the    *)
(* reassembler refuses; fragproto, the next header of an IPv6 Fragment     *)
(* header; udp, tcp, sctp (ports and payload); dns; gre, the  *)
(* GRE payload; and for the frame as captured: env, the bytes before       *)
(* offset 34 that no layer field of the model depends on; long, whether    *)
(* the frame is longer than 34 bytes; method, what internal.ParseCSeq      *)
(* finds in it; frag6, whether a full decode of the frame finds an IPv6    *)
(* Fragment layer.                                                         *)

NoL4 == [sp |-> 0, dp |-> 0, pl |-> <<>>]

\* A GRE payload: its length, the top nibble of its first byte, bit 0 of
\* byte 11, and the frame that starts at byte "at" of it.
NoGre == [len |-> 0, ver |-> 0, ext |-> FALSE, at |-> 0, in |-> <<>>]

\* What DecodeLayers leaves when nothing decodes
NoFrame ==
    [chain |-> <<>>, vlan |-> 0, df |-> FALSE, mf |-> FALSE, off |-> 0,
     proto |-> 0, src |-> 0, ippl |-> <<>>, id |-> 0, bad |-> FALSE,
     lone |-> FALSE,
     udp |-> NoL4, tcp |-> NoL4, sctp |-> NoL4, dns |-> <<>>, gre |-> NoGre,
     fragproto |-> 0,
     env |-> 0, long |-> FALSE, method |-> "", frag6 |-> FALSE]

ProtoTCP == 6
ProtoUDP == 17
ProtoSCTP == 132
ProtoFrag6 == 44

UDPHeaderLen == 8
TCPHeaderLen == 20

\* d.parserUDP.DecodeLayers(payload, &d.decodedLayers): the decoded layers
\* are truncated, then the UDP header is decoded when it is all there.
ParseUDP(f, bytes) ==
    IF Len(bytes) < UDPHeaderLen THEN [f EXCEPT !.chain = <<>>]
    ELSE [f EXCEPT !.chain = <<"UDP">>,
                   !.udp = [sp |-> bytes[1] * 256 + bytes[2],
                            dp |-> bytes[3] * 256 + bytes[4],
                            pl |-> SliceFrom(bytes, UDPHeaderLen)]]

\* d.parserTCP.DecodeLayers(payload, &d.decodedLayers); the data offset is
\* the top nibble of byte 12, in 32-bit words.
ParseTCP(f, bytes) ==
    IF Len(bytes) < TCPHeaderLen \/ Len(bytes) < (bytes[13] \div 16) * 4
       \/ (bytes[13] \div 16) * 4 < TCPHeaderLen
    THEN [f EXCEPT !.chain = <<>>]
    ELSE [f EXCEPT !.chain = <<"TCP">>,
                   !.tcp = [sp |-> bytes[1] * 256 + bytes[2],
                            dp |-> bytes[3] * 256 + bytes[4],
                            pl |-> SliceFrom(bytes, (bytes[13] \div 16) * 4)]]

\* d.parser.DecodeLayers(d.gre.Payload[off:], &d.decodedLayers): the frame
\* that starts at that offset, or nothing recognisable.
Redecode(gre, off) ==
    IF gre.at = off /\ gre.in # <<>> THEN gre.in[1] ELSE NoFrame

\* data[34:], the dedup fingerprint: the frame without the bytes before
\* offset 34
Fingerprint(f) == [f EXCEPT !.env = 0]

----------------------------------------------------------------------------
(* The IPv4 / IPv6 fragment reassemblers (packages ip4defrag, ip6defrag).  *)
(* frags maps a key (IP version, source, fragmentation id) to the set of   *)
(* fragments held for it; a fragment is [off, mf, ippl].                   *)

FragKey(ver, f) == <<ver, f.src, f.id>>

FragOf(f) == [off |-> f.off, mf |-> f.mf, ippl |-> f.ippl]

Held(fr, key) == IF key \in DOMAIN fr THEN fr[key] ELSE {}

\* The bytes of the fragments of S that cover the datagram contiguously
\* from byte position pos to a last fragment, or Nil when they do not.
RECURSIVE Cover(_, _)
Cover(S, pos) ==
    LET here == {x \in S : x.off * 8 = pos}
    IN  IF here = {} THEN Nil
        ELSE LET x == CHOOSE y \in here : TRUE
             IN  IF ~x.mf THEN x.ippl
                 ELSE IF Len(x.ippl) = 0 THEN Nil
                 ELSE LET rest == Cover(S, pos + Len(x.ippl))
                      IN  IF rest = Nil THEN Nil ELSE x.ippl \o rest

Without(fr, key) == [k \in DOMAIN fr \ {key} |-> fr[k]]

With(fr, key, S) == [k \in DOMAIN fr \cup {key} |-> IF k = key THEN S ELSE fr[k]]

\* DefragIPv4WithTimestamp / DefragIPv6WithTimestamp: res is "err", "nil"
\* (the set is still incomplete) or "done" with the reassembled payload.
\* A fragment marked lone is one the reassembler takes for a complete
\* datagram and returns as it is.
Defrag(fr, ver, f) ==
    LET key == FragKey(ver, f)
        S   == Held(fr, key) \cup {FragOf(f)}
        all == Cover(S, 0)
    IN  IF f.bad THEN [res |-> "err", frags |-> fr, payload |-> <<>>]
        ELSE IF f.lone THEN [res |-> "done", frags |-> fr, payload |-> f.ippl]
        ELSE IF all = Nil
        THEN [res |-> "nil", frags |-> With(fr, key, S), payload |-> <<>>]
        ELSE [res |-> "done", frags |-> Without(fr, key), payload |-> all]

IPHeaderLen == 20

----------------------------------------------------------------------------
(* Decoder.Process: the dispatch loop over d.decodedLayers                 *)
(*                                                                         *)
(* A run r of the loop has: f, the current decode result (d.decodedLayers  *)
(* and the layer structs); data, the frame as captured; i, the scan index; *)
(* found (foundGRELayer); o, the collaborators' answers for this frame;    *)
(* st, frags, asm, the counters, reassembler state and segments handed to  *)
(* the TCP assembler; pend, the record a blocked send holds; fate: "run",  *)
(* "send" (at PacketQueue <- pkt), "done" (returned), "panic", "exit";     *)
(* calls and idx, the processTransport calls made and the indexes visited; *)
(* defrag, the answer of the reassembler ("none" when it was not asked);    *)
(* offs, the offsets the GRE payloads were redecoded at.                   *)

\* The arguments of a processTransport call: the decoded layers and layer
\* structs, the configuration read, and IPVersion, IPProtocol, sIP
Call(f, cf, ver, proto, src) ==
    [chain |-> f.chain, vlan |-> f.vlan, udp |-> f.udp, tcp |-> f.tcp,
     sctp |-> f.sctp, dns |-> f.dns, mode |-> cf.mode,
     reassembly |-> cf.reassembly, discardSrcIP |-> cf.discardSrcIP,
     ver |-> ver, proto |-> proto, src |-> src]

\* What a layer of the loop asks for: go on with run r ("go"), return
\* ("done"), panic, or call processTransport with decode result f ("call")
Plan(r, what, f, ver, proto, via) ==
    [r |-> r, what |-> what, f |-> f, ver |-> ver, proto |-> proto,
     via |-> via]

Go(r) == Plan(r, "go", r.f, 0, 0, "none")

End(r, fate) == Plan([r EXCEPT !.fate = fate], "go", r.f, 0, 0, "none")

\* The run after d.processTransport(...) returned or reached its send
AfterTransport(r, c, via, out) ==
    [r EXCEPT !.st = out.stats,
              !.asm = @ + out.asm,
              !.calls = Append(@, [c |-> c, before |-> r.st, out |-> out,
                                   via |-> via]),
              !.pend = out.send,
              !.fate = IF out.fate # "ok" THEN out.fate
                       ELSE IF out.send # <<>> THEN "send" ELSE "run"]

CallTransport(r, c, via) ==
    AfterTransport(r, c, via, processTransport(c, r.o, r.st))

\* A faulty variant: an incomplete set is left without counting the fragment
OnIncompleteSilent(r, d) == End([r EXCEPT !.frags = d.frags], "done")

\* Lines 285-287 and 321-323: the set is still incomplete
OnIncomplete(r, d) ==
    End([r EXCEPT !.frags = d.frags, !.st = Inc(@, "fragCount")], "done")

\* The run with the reassembler's answer noted
Answered(r, d) == [r EXCEPT !.defrag = d.res]

\* A faulty variant: the don't-fragment flag is not looked at
IsWhole4NoDF(f) == ~f.mf /\ f.off = 0

\* Line 275: the datagram is no fragment
IsWhole4(f) == f.df \/ (~f.mf /\ f.off = 0)

\* Lines 280-306: after d.defragIP4 answered d
AfterDefrag4(r, f, d) ==
    IF d.res = "err" THEN End(r, "done")
    ELSE IF d.res = "nil" THEN OnIncomplete(r, d)
    ELSE IF IPHeaderLen + Len(d.payload) = IPHeaderLen + Len(f.ippl)
    THEN Plan([r EXCEPT !.frags = d.frags], "call", f, 2, f.proto, "same")
    ELSE IF f.proto = ProtoUDP
    THEN Plan([r EXCEPT !.frags = d.frags], "call", ParseUDP(f, d.payload), 2,
              f.proto, "reasm")
    ELSE IF f.proto = ProtoTCP
    THEN Plan([r EXCEPT !.frags = d.frags], "call", ParseTCP(f, d.payload), 2,
              f.proto, "reasm")
    ELSE End([r EXCEPT !.frags = d.frags], "done")

\* Lines 272-306
IPv4Layer(r, cf) ==
    IF IsWhole4(r.f)
    THEN Plan([r EXCEPT !.st = Inc(@, "ip4Count")], "call", r.f, 2, r.f.proto,
              "fast")
    ELSE AfterDefrag4(Answered([r EXCEPT !.st = Inc(@, "ip4Count")],
                               Defrag(r.frags, 4, r.f)),
                      r.f, Defrag(r.frags, 4, r.f))

\* Lines 317-338: after d.defragIP6 answered d
AfterDefrag6(r, f, d) ==
    IF d.res = "err" THEN End(r, "done")
    ELSE IF d.res = "nil" THEN OnIncomplete(r, d)
    ELSE IF f.fragproto = ProtoUDP
    THEN Plan([r EXCEPT !.frags = d.frags], "call", ParseUDP(f, d.payload), 10,
              f.fragproto, "reasm")
    ELSE IF f.fragproto = ProtoTCP
    THEN Plan([r EXCEPT !.frags = d.frags], "call", ParseTCP(f, d.payload), 10,
              f.fragproto, "reasm")
    ELSE End([r EXCEPT !.frags = d.frags], "done")

\* Lines 308-339.  The type assertion on a missing Fragment layer panics.
IPv6Layer(r, cf) ==
    IF r.f.proto # ProtoFrag6
    THEN Plan([r EXCEPT !.st = Inc(@, "ip6Count")], "call", r.f, 10, r.f.proto,
              "fast")
    ELSE IF ~r.data.frag6
    THEN End([r EXCEPT !.st = Inc(@, "ip6Count")], "panic")
    ELSE AfterDefrag6(Answered([r EXCEPT !.st = Inc(@, "ip6Count")],
                               Defrag(r.frags, 6, r.f)),
                      r.f, Defrag(r.frags, 6, r.f))

\* A faulty variant: every redecode sets the index to 0
UnwrapRestart(r, off) ==
    [r EXCEPT !.f = Redecode(r.f.gre, off),
              !.i = 0,
              !.found = TRUE,
              !.offs = Append(@, off)]

\* A faulty variant: no redecode touches the index
UnwrapInPlace(r, off) ==
    [r EXCEPT !.f = Redecode(r.f.gre, off),
              !.found = TRUE,
              !.offs = Append(@, off)]

\* Lines 248-252: the redecoded chain replaces the decoded layers; the
\* first redecode of a frame sets i to 0 (the loop then increments it).
Unwrap(r, off) ==
    [r EXCEPT !.f = Redecode(r.f.gre, off),
              !.i = IF r.found THEN @ ELSE 0,
              !.found = TRUE,
              !.offs = Append(@, off)]

\* A faulty variant: the extra header segment of ERSPAN version 2 is not
\* looked at
ErspanOffsetNoExt(gre) ==
    IF gre.ver = 1 /\ gre.len > 8 THEN 8
    ELSE IF gre.ver = 2 /\ gre.len > 12 THEN 12
    ELSE -1

\* The offset an ERSPAN payload is redecoded at, or -1 for no redecode
ErspanOffset(gre) ==
    IF gre.ver = 1 /\ gre.len > 8 THEN 8
    ELSE IF gre.ver = 2 /\ gre.len > 12
    THEN (IF gre.ext /\ gre.len > 20 THEN 20 ELSE 12)
    ELSE -1

\* Lines 244-270.  d.gre.Payload[0] of an empty payload panics.
GRELayer(r, cf) ==
    IF cf.erspan
    THEN IF r.f.gre.len = 0 THEN End(r, "panic")
         ELSE IF ErspanOffset(r.f.gre) >= 0
         THEN Go(Unwrap(r, ErspanOffset(r.f.gre)))
         ELSE Go(r)
    ELSE Go(Unwrap(r, 0))

\* Lines 243-340: the switch on d.decodedLayers[i]
Switch(r, cf, tag) ==
    CASE tag = "GRE"  -> GRELayer(r, cf)
      [] tag = "IPv4" -> IPv4Layer(r, cf)
      [] tag = "IPv6" -> IPv6Layer(r, cf)
      [] OTHER -> Go(r)

Carry(p, cf) ==
    IF p.what = "call"
    THEN CallTransport([p.r EXCEPT !.f = p.f],
                       Call(p.f, cf, p.ver, p.proto, p.f.src), p.via)
    ELSE p.r

\* One pass of the loop body at index r.i (0-based)
Dispatch(r, cf) ==
    Carry(Switch([r EXCEPT !.idx = Append(@, r.i)], cf, r.f.chain[r.i + 1]), cf)

\* The loop of lines 242-341, run until it ends, returns, panics or
\* reaches a send on PacketQueue.
RECURSIVE RunLoop(_, _)
Iterate(r1, cf) ==
    IF r1.fate = "run" THEN RunLoop([r1 EXCEPT !.i = @ + 1], cf) ELSE r1

RunLoop(r, cf) ==
    IF r.fate # "run" THEN r
    ELSE IF r.i >= Len(r.f.chain) THEN [r EXCEPT !.fate = "done"]
    ELSE Iterate(Dispatch(r, cf), cf)

\* After the send completed: the call returns into the loop, which goes on
\* with the next index.
Resume(r, cf) == RunLoop([r EXCEPT !.fate = "run", !.pend = <<>>, !.i = @ + 1], cf)

\* Lines 235-240: the index of the last VXLAN layer, or 0
StartIndex(chain) ==
    LET vx == {k \in 1..Len(chain) : chain[k] = "VXLAN"}
    IN  IF vx = {} THEN 0
        ELSE (CHOOSE k \in vx : \A m \in vx : m <= k) - 1

\* Lines 175 and 220-229: the method filter
Upper(m) ==
    CASE m = "options" -> "OPTIONS"
      [] m = "invite"  -> "INVITE"
      [] OTHER -> m

Filter(cf) == {Upper(cf.discardMethod[k]) : k \in 1..Len(cf.discardMethod)}

\* internal.ParseCSeq(data): the method token of the frame, "" for nil
ParseCSeq(data) == data.method

\* A faulty variant: the token of the frame is upper-cased as well before
\* it is compared
MethodDiscardedAnyCase(cf, data) ==
    /\ cf.discardMethod # <<>>
    /\ ParseCSeq(data) # ""
    /\ Upper(ParseCSeq(data)) \in Filter(cf)

MethodDiscarded(cf, data) ==
    /\ cf.discardMethod # <<>>
    /\ ParseCSeq(data) # ""
    /\ ParseCSeq(data) \in Filter(cf)

\* Lines 206-218: the dedup cache maps a fingerprint to the ticks it has
\* left to live.
DedupTTL == 4

DedupApplies(cf, data) == cf.dedup /\ data.long

\* A faulty variant: the result of the cache lookup is read the wrong way round
DedupHitInverted(cf, ch, data) ==
    DedupApplies(cf, data) /\ Fingerprint(data) \notin DOMAIN ch

DedupHit(cf, ch, data) ==
    DedupApplies(cf, data) /\ Fingerprint(data) \in DOMAIN ch

DedupSet(ch, data) ==
    [k \in DOMAIN ch \cup {Fingerprint(data)} |->
        IF k = Fingerprint(data) THEN DedupTTL ELSE ch[k]]

\* The run Process starts for a frame (line 231 on)
StartRun(data, o, st, fr) ==
    [f |-> data, data |-> data, i |-> StartIndex(data.chain), found |-> FALSE,
     o |-> o, st |-> st, frags |-> fr, asm |-> 0, pend |-> <<>>,
     fate |-> "run", calls |-> <<>>, idx |-> <<>>, defrag |-> "none",
     offs |-> <<>>]

----------------------------------------------------------------------------
(* Bounds of the model                                                     *)

\* Frames delivered in a behaviour that follows state from frame to frame
MaxFrames == 3
\* The tunnels inside one another in a frame
MaxNest == 3
\* The layers of the longest chain a frame of the model decodes to
MaxChain == 4
\* Frames delivered in a behaviour that probes the handling of one frame
MaxProbe == 1
\* The capacity of PacketQueue in the model (20000 in the program)
QueueCap == 2
\* HEP packets handed to ProcessHEPPacket in a behaviour
MaxHEP == 1

----------------------------------------------------------------------------
(* The state machine                                                       *)

Modes == {"SIP", "SIPLOG", "SIPDNS", "SIPRTP"}

\* The answers of the collaborators: the correlation lookup, and whether
\* net.DialUDP succeeds
Quiet == [corr |-> "miss", dial |-> TRUE]

Oracles == {[corr |-> "hit", dial |-> TRUE], Quiet,
            [corr |-> "partial", dial |-> TRUE],
            [corr |-> "miss", dial |-> FALSE]}

IdleCtx ==
    [StartRun(NoFrame, Quiet, ZeroStats, <<>>) EXCEPT !.fate = "none"]
        @@ [how |-> "none", stats0 |-> ZeroStats]

\* What is kept of a run: the counters and reassembler state live in stats
\* and frags
Keep(r, how, st0) ==
    [r EXCEPT !.st = ZeroStats, !.frags = <<>>, !.asm = 0]
        @@ [how |-> how, stats0 |-> st0]

PcOf(fate) ==
    CASE fate = "send"  -> "send"
      [] fate = "panic" -> "crashed"
      [] fate = "exit"  -> "exited"
      [] OTHER -> "idle"

InitWith(configs, hepBudget, frameBudget) ==
    /\ cfg \in configs
    /\ queue = <<>>
    /\ stats = ZeroStats
    /\ cache = <<>>
    /\ frags = <<>>
    /\ asm = 0
    /\ pc = "idle"
    /\ ctx = IdleCtx
    /\ hep = <<>>
    /\ sent = <<>>
    /\ delivered = <<>>
    /\ budget = [frames |-> frameBudget, hep |-> hepBudget]
    /\ now = 0
    /\ log = <<>>

\* The log entry of a delivery: the fingerprint, whether the dedup check
\* applied, the time, how Process went on ("dup", "filtered", "decoded"),
\* the duplicate-counter increments and the records sent so far
Entry(data, how, dups) ==
    [fp |-> Fingerprint(data), long |-> data.long, at |-> now, how |-> how,
     dups |-> dups, recs |-> 0]

\* The effects of a run that ended, returned or reached a send
Land(r, how, st0) ==
    /\ stats' = r.st
    /\ frags' = r.frags
    /\ asm' = asm + r.asm
    /\ pc' = PcOf(r.fate)
    /\ ctx' = Keep(r, how, st0)

\* Decoder.Process(data, ci), up to its return or its first send
Process(data, o) ==
    /\ pc = "idle"
    /\ budget.frames > 0
    /\ budget' = [budget EXCEPT !.frames = @ - 1]
    /\ UNCHANGED <<cfg, queue, hep, sent, delivered, now>>
    /\ IF DedupHit(cfg, cache, data)
       THEN /\ Land([StartRun(data, o, Inc(stats, "dupCount"), frags)
                        EXCEPT !.fate = "done"], "dup", stats)
            /\ cache' = cache
            /\ log' = Append(log, Entry(data, "dup", 1))
       ELSE /\ cache' = IF DedupApplies(cfg, data) THEN DedupSet(cache, data)
                        ELSE cache
            /\ IF MethodDiscarded(cfg, data)
               THEN /\ Land([StartRun(data, o, stats, frags)
                               EXCEPT !.fate = "done"], "filtered", stats)
                    /\ log' = Append(log, Entry(data, "filtered", 0))
               ELSE /\ Land(RunLoop(StartRun(data, o, stats, frags), cfg),
                            "decoded", stats)
                    /\ log' = Append(log, Entry(data, "decoded", 0))

\* A faulty variant: a send that gives up when the queue is full
\* (select with a default case)
SendDropping ==
    /\ pc = "send"
    /\ queue' = IF Len(queue) < QueueCap THEN Append(queue, ctx.pend[1])
                ELSE queue
    /\ sent' = Append(sent, ctx.pend[1])
    /\ Land(Resume([ctx EXCEPT !.st = stats, !.frags = frags, !.asm = 0], cfg),
            ctx.how, ctx.stats0)
    /\ log' = [log EXCEPT ![Len(log)].recs = @ + 1]
    /\ UNCHANGED <<cfg, cache, hep, delivered, budget, now>>

\* PacketQueue <- pkt in processTransport: blocks while the queue is full;
\* then the call returns into the loop of Process, which runs on.
Send ==
    /\ pc = "send"
    /\ Len(queue) < QueueCap
    /\ queue' = Append(queue, ctx.pend[1])
    /\ sent' = Append(sent, ctx.pend[1])
    /\ Land(Resume([ctx EXCEPT !.st = stats, !.frags = frags, !.asm = 0], cfg),
            ctx.how, ctx.stats0)
    /\ log' = [log EXCEPT ![Len(log)].recs = @ + 1]
    /\ UNCHANGED <<cfg, cache, hep, delivered, budget, now>>

\* Decoder.ProcessHEPPacket(data), up to its send
ProcessHEPPacket(data) ==
    /\ hep = <<>>
    /\ budget.hep > 0
    /\ pc \notin {"crashed", "exited"}
    /\ budget' = [budget EXCEPT !.hep = @ - 1]
    /\ stats' = Inc(stats, "hepCount")
    /\ hep' = <<[NewPacket(100, 0, 0) EXCEPT !.Payload = data]>>
    /\ UNCHANGED <<cfg, queue, cache, frags, asm, pc, ctx, sent, delivered,
                   now, log>>

\* PacketQueue <- pkt in ProcessHEPPacket
SendHEP ==
    /\ hep # <<>>
    /\ pc \notin {"crashed", "exited"}
    /\ Len(queue) < QueueCap
    /\ queue' = Append(queue, hep[1])
    /\ sent' = Append(sent, hep[1])
    /\ hep' = <<>>
    /\ UNCHANGED <<cfg, stats, cache, frags, asm, pc, ctx, delivered, budget,
                   now, log>>

\* The exporter receives from PacketQueue
Consume ==
    /\ queue # <<>>
    /\ pc \notin {"crashed", "exited"}
    /\ delivered' = Append(delivered, Head(queue))
    /\ queue' = Tail(queue)
    /\ UNCHANGED <<cfg, stats, cache, frags, asm, pc, ctx, hep, sent, budget,
                   now, log>>

\* The clock of the dedup cache advances: entries age, and expire at 0
Tick ==
    /\ DOMAIN cache # {}
    /\ pc \notin {"crashed", "exited"}
    /\ cache' = [k \in {x \in DOMAIN cache : cache[x] > 1} |-> cache[k] - 1]
    /\ now' = now + 1
    /\ UNCHANGED <<cfg, queue, stats, frags, asm, pc, ctx, hep, sent,
                   delivered, budget, log>>

\* d.flushFragments: the sweep discards the fragment sets that are too old
FlushFragments ==
    /\ pc \notin {"crashed", "exited"}
    /\ \E old \in SUBSET (DOMAIN frags) :
          frags' = [k \in DOMAIN frags \ old |-> frags[k]]
    /\ UNCHANGED <<cfg, queue, stats, cache, asm, pc, ctx, hep, sent,
                   delivered, budget, now, log>>

\* d.flushTCPAssembler: started only with config.Cfg.Reassembly
FlushTCP ==
    /\ cfg.reassembly
    /\ pc \notin {"crashed", "exited"}
    /\ asm' = 0
    /\ UNCHANGED <<cfg, queue, stats, cache, frags, pc, ctx, hep, sent,
                   delivered, budget, now, log>>

----------------------------------------------------------------------------
(* Inputs: the frames the capture source delivers                          *)

\* n filler bytes ("x": its top two bits are not 10)
Pad(n) == [k \in 1..n |-> 120]

\* The UDP header of a datagram, and a TCP header without options
UDPHeader(sp, dp, n) ==
    <<sp \div 256, sp % 256, dp \div 256, dp % 256,
      (UDPHeaderLen + n) \div 256, (UDPHeaderLen + n) % 256, 0, 0>>

TCPHeader(sp, dp) ==
    <<sp \div 256, sp % 256, dp \div 256, dp % 256>> \o
    <<0, 0, 0, 1, 0, 0, 0, 0, 80, 24, 1, 0, 0, 0, 0, 0>>

WithPayloadLayer(chain, pl) == IF pl = <<>> THEN chain ELSE Append(chain, "Payload")

\* Ethernet / IPv4 / UDP, source address 1
UDP4(sp, dp, pl) ==
    [NoFrame EXCEPT !.chain = WithPayloadLayer(<<"Eth", "IPv4", "UDP">>, pl),
                    !.long = TRUE, !.proto = ProtoUDP, !.src = 1,
                    !.udp = [sp |-> sp, dp |-> dp, pl |-> pl],
                    !.ippl = UDPHeader(sp, dp, Len(pl)) \o pl]

TCP4(sp, dp, pl) ==
    [NoFrame EXCEPT !.chain = WithPayloadLayer(<<"Eth", "IPv4", "TCP">>, pl),
                    !.long = TRUE, !.proto = ProtoTCP, !.src = 1,
                    !.tcp = [sp |-> sp, dp |-> dp, pl |-> pl],
                    !.ippl = TCPHeader(sp, dp) \o pl]

\* The parser has no decoder for the SCTP chunks: the chain ends at SCTP
SCTP4(sp, dp, pl) ==
    [NoFrame EXCEPT !.chain = <<"Eth", "IPv4", "SCTP">>,
                    !.long = TRUE, !.proto = ProtoSCTP, !.src = 1,
                    !.sctp = [sp |-> sp, dp |-> dp, pl |-> pl]]

\* The same datagram over IPv6
OverIPv6(f) ==
    [f EXCEPT !.chain = [k \in DOMAIN f.chain |->
                            IF f.chain[k] = "IPv4" THEN "IPv6" ELSE f.chain[k]]]

\* The same frame behind an 802.1Q tag with identifier v
Tagged(f, v) ==
    [f EXCEPT !.chain = <<Head(f.chain), "Dot1Q">> \o Tail(f.chain),
              !.vlan = v]

\* A UDP datagram the parser finds a DNS layer in
WithDNS(f, answer) ==
    [f EXCEPT !.chain = [k \in DOMAIN f.chain |->
                            IF f.chain[k] = "Payload" THEN "DNS" ELSE f.chain[k]],
              !.dns = answer]

\* Ethernet / IPv4 / GRE whose protocol type the parser cannot follow
\* (ERSPAN): the chain ends at GRE.
GRE4(len, ver, ext, at, inner) ==
    [NoFrame EXCEPT !.chain = <<"Eth", "IPv4", "GRE">>,
                    !.long = (len > 0), !.proto = 47, !.src = 1,
                    !.gre = [len |-> len, ver |-> ver, ext |-> ext, at |-> at,
                             in |-> inner]]

\* An IPv6 datagram whose next header is Fragment; found: whether the full
\* decode of the frame finds the Fragment layer
Frag6(found, id, off, mf, fragproto, slice) ==
    [NoFrame EXCEPT !.chain = <<"Eth", "IPv6">>, !.long = TRUE,
                    !.proto = ProtoFrag6, !.src = 1, !.id = id, !.off = off,
                    !.mf = mf, !.fragproto = fragproto, !.ippl = slice,
                    !.frag6 = found]

\* An IPv4 fragment: the parser stops at IPv4
Frag4(id, off, mf, proto, slice) ==
    [NoFrame EXCEPT !.chain = <<"Eth", "IPv4">>, !.long = TRUE,
                    !.proto = proto, !.src = 1, !.id = id, !.off = off,
                    !.mf = mf, !.ippl = slice]

\* A 16-byte SIP message: "CSeq" at offset 6
SipMsg == Pad(6) \o TokCSeq \o Pad(6)

SipUDP == UDP4(5060, 5060, SipMsg)

\* SCTP payloads: byte 8 is b, the length is n, "CSeq" starts at offset at
SctpPayload(b, n) == Pad(8) \o <<b>> \o Pad(n - 9)

SctpSip(b, at) == Pad(8) \o <<b>> \o Pad(at - 9) \o TokCSeq \o Pad(2)

\* n tunnels inside one another around a SIP datagram, each payload of
\* ERSPAN version ver with the inner frame at offset at
RECURSIVE Nest(_, _, _)
Nest(n, ver, at) ==
    IF n = 0 THEN SipUDP
    ELSE GRE4(40, ver, FALSE, at, <<Nest(n - 1, ver, at)>>)

\* The datagram of f carried in an IPv4 datagram of protocol 4 (IP in
\* IP): the parser finds IPv4 twice, and d.ip4 holds the inner header
IPinIP(f) == [f EXCEPT !.chain = <<"Eth", "IPv4">> \o Tail(f.chain)]

\* A frame in which internal.ParseCSeq finds the method token m
WithMethod(f, m) == [f EXCEPT !.method = m]

DefaultCfg ==
    [mode |-> "SIP", dedup |-> FALSE, reassembly |-> FALSE, erspan |-> FALSE,
     discardMethod |-> <<>>, discardSrcIP |-> {}]

----------------------------------------------------------------------------
(* Spec: single frames through the layer dispatch (tunnels, SCTP, IPv6     *)
(* fragments), in every ERSPAN / reassembly setting                        *)

DispatchFrames ==
    {SipUDP, TCP4(5060, 5060, SipMsg),
     SCTP4(5060, 5060, Pad(8)),
     SCTP4(5060, 5060, SctpPayload(0, 12)),
     SCTP4(5060, 5060, SctpPayload(64, 18)),
     SCTP4(5060, 5060, SctpSip(0, 16)),
     SCTP4(5060, 5060, SctpSip(64, 20)),
     SCTP4(5060, 5060, SctpSip(5, 16)),
     SCTP4(5060, 5060, SctpPayload(0, 16)),
     SCTP4(5060, 5060, SctpPayload(64, 24)),
     GRE4(0, 0, FALSE, 0, <<>>),
     GRE4(40, 1, FALSE, 8, <<SipUDP>>),
     GRE4(40, 2, FALSE, 12, <<SipUDP>>),
     GRE4(40, 2, TRUE, 20, <<SipUDP>>),
     GRE4(8, 1, FALSE, 0, <<SipUDP>>),
     GRE4(12, 2, FALSE, 0, <<SipUDP>>),
     GRE4(20, 2, TRUE, 12, <<SipUDP>>),
     GRE4(21, 2, TRUE, 20, <<>>),
     GRE4(40, 3, FALSE, 8, <<SipUDP>>),
     GRE4(40, 0, FALSE, 0, <<SipUDP>>),
     GRE4(40, 1, FALSE, 8, <<GRE4(40, 1, FALSE, 8, <<SipUDP>>)>>),
     GRE4(40, 2, FALSE, 12, <<GRE4(40, 1, FALSE, 8, <<SipUDP>>)>>),
     GRE4(40, 0, FALSE, 0, <<GRE4(40, 0, FALSE, 0, <<SipUDP>>)>>),
     IPinIP(SipUDP),
     Frag6(FALSE, 1, 0, TRUE, ProtoUDP, <<>>)}

DispatchConfigs ==
    {[DefaultCfg EXCEPT !.erspan = e, !.reassembly = a] : e, a \in BOOLEAN}

Init == InitWith(DispatchConfigs, 0, MaxProbe)

Next ==
    \/ \E f \in DispatchFrames : Process(f, Quiet)
    \/ Send
    \/ Consume
    \/ FlushTCP

Spec == Init /\ [][Next]_vars

\* C3: no frame is fatal to the decode path: Process returns for every
\* frame and configuration, and the process neither panics nor exits.
NoFrameIsFatal == pc \notin {"crashed", "exited"}

\* The offset the claim gives for a GRE payload under ERSPAN-aware
\* configuration: <<8>>, <<12>>, <<20>>, or <<>> for no redecode
ErspanRule(g) ==
    IF g.len = 0 THEN <<>>
    ELSE IF g.ver = 1 THEN (IF g.len > 8 THEN <<8>> ELSE <<>>)
    ELSE IF g.ver = 2
    THEN (IF g.len <= 12 THEN <<>>
          ELSE IF g.ext /\ g.len > 20 THEN <<20>> ELSE <<12>>)
    ELSE <<>>

\* The frame delivered last has a GRE layer, and the offsets of its first
\* redecode (none, or one)
FirstGRE == \E k \in 1..Len(ctx.data.chain) : ctx.data.chain[k] = "GRE"

FirstOffset == IF ctx.offs = <<>> THEN <<>> ELSE <<ctx.offs[1]>>

\* C11: under ERSPAN-aware configuration a GRE payload with top nibble 1
\* and length > 8 is redecoded at offset 8; one with top nibble 2 and
\* length > 12 at offset 20 when bit 0 of byte 11 is set and the length is
\* > 20, else at offset 12; any other payload is not redecoded.  With
\* ERSPAN-awareness disabled the payload is redecoded from offset 0.
ErspanOffsetSelected ==
    FirstGRE =>
        /\ cfg.erspan => FirstOffset = ErspanRule(ctx.data.gre)
        /\ ~cfg.erspan => FirstOffset = <<0>>

\* A version 2 payload with the extra header segment was redecoded at
\* offset 20, and the SIP datagram found there was sent
ErspanWitness ==
    /\ cfg.erspan /\ FirstGRE
    /\ ctx.data.gre.ver = 2 /\ ctx.data.gre.ext /\ ctx.data.gre.len > 20
    /\ ctx.offs = <<20>>
    /\ Len(sent) = 1 /\ sent[1].ProtoType = 1

----------------------------------------------------------------------------
(* SpecDedup: the same frames delivered again, with the cache's clock      *)

\* A frame of at most 34 bytes: Ethernet / IPv4 with no transport bytes
ShortFrame ==
    [NoFrame EXCEPT !.chain = <<"Eth", "IPv4">>, !.proto = ProtoUDP, !.src = 1]

\* The same frame with other bytes before offset 34
Mirrored(f) == [f EXCEPT !.env = 1]

DedupFrames ==
    {SipUDP, Mirrored(SipUDP), UDP4(5060, 5060, Pad(16)), ShortFrame}

DedupConfigs == {[DefaultCfg EXCEPT !.dedup = d] : d \in BOOLEAN}

InitDedup == InitWith(DedupConfigs, 0, MaxFrames)

NextDedup ==
    \/ \E f \in DedupFrames : Process(f, Quiet)
    \/ Send
    \/ Consume
    \/ Tick

SpecDedup == InitDedup /\ [][NextDedup]_vars

\* The earlier deliveries of the fingerprint of entry k that set the cache
\* entry (they were no duplicates) less than DedupTTL ticks before it
FreshBefore(k) ==
    {j \in 1..(k - 1) : /\ log[j].fp = log[k].fp
                        /\ log[j].how # "dup"
                        /\ log[k].at - log[j].at < DedupTTL}

\* The earlier deliveries of the same fingerprint
SameBefore(k) == {j \in 1..(k - 1) : log[j].fp = log[k].fp}

\* C1: with dedup enabled, a frame longer than 34 bytes delivered again
\* within the TTL of the delivery that was processed is dropped before any
\* layer is decoded: one duplicate-counter increment, no record, so the two
\* deliveries yield the one record of the first; delivered again once the
\* TTL has expired it is processed anew and yields its record a second time.
DedupIdempotent ==
    (cfg.dedup /\ pc = "idle") =>
        \A k \in DOMAIN log :
            log[k].long =>
                /\ FreshBefore(k) # {} =>
                      /\ log[k].how = "dup"
                      /\ log[k].dups = 1
                      /\ log[k].recs = 0
                      /\ k = Len(log) => (ctx.calls = <<>> /\ ctx.idx = <<>>)
                /\ (FreshBefore(k) = {} /\ SameBefore(k) # {}) =>
                      /\ log[k].how = "decoded"
                      /\ log[k].dups = 0
                      /\ \A j \in SameBefore(k) :
                            log[j].how = "decoded" => log[k].recs = log[j].recs

\* The SIP frame was delivered, delivered again (mirrored) within the TTL
\* and dropped, and delivered a third time after the TTL: two records
DedupWitness ==
    /\ cfg.dedup /\ pc = "idle" /\ Len(log) = 3
    /\ log[1].fp = Fingerprint(SipUDP)
    /\ log[2].fp = log[1].fp /\ log[3].fp = log[1].fp
    /\ log[1].recs = 1
    /\ log[2].how = "dup" /\ log[2].at > log[1].at
    /\ log[3].at - log[1].at >= DedupTTL
    /\ log[3].recs = 1
    /\ stats.dupCount = 1
    /\ Len(sent) = 2

----------------------------------------------------------------------------
(* SpecQueue: the decode path and ProcessHEPPacket fill PacketQueue while  *)
(* the consumer drains it                                                  *)

SipTCP == TCP4(5060, 5060, SipMsg)

QueueFrames == {SipUDP, SipTCP}

HEPData == {<<72, 69, 80, 51>>}

InitQueue == InitWith({DefaultCfg}, MaxHEP, MaxFrames)

NextQueue ==
    \/ \E f \in QueueFrames : Process(f, Quiet)
    \/ Send
    \/ \E d \in HEPData : ProcessHEPPacket(d)
    \/ SendHEP
    \/ Consume

SpecQueue == InitQueue /\ [][NextQueue]_vars

\* The decode path is at its send and the queue is full
DecodeBlocked == pc = "send" /\ Len(queue) = QueueCap

\* ProcessHEPPacket is at its send and the queue is full
HEPBlocked == hep # <<>> /\ Len(queue) = QueueCap

\* C2: the queue never holds more than its capacity; the records the sends
\* completed for are exactly the records delivered followed by the records
\* queued, in order (none dropped, overwritten or delivered twice); and a
\* producer at its send while the queue is full stays there, holding its
\* record, until the consumer has removed a record.
BoundedHandOff ==
    /\ [](Len(queue) <= QueueCap /\ sent = delivered \o queue)
    /\ [][DecodeBlocked =>
             \/ (pc' = "send" /\ ctx'.pend = ctx.pend /\ sent' = sent)
             \/ (Len(queue') < QueueCap /\ delivered' # delivered)]_vars
    /\ [][HEPBlocked =>
             \/ (hep' = hep /\ sent' = sent)
             \/ (Len(queue') < QueueCap /\ delivered' # delivered)]_vars

\* The queue is full, with the decode path and ProcessHEPPacket both
\* waiting at their sends
BlockedWitness ==
    /\ DecodeBlocked
    /\ HEPBlocked
    /\ Len(sent) = QueueCap + Len(delivered)

----------------------------------------------------------------------------
(* SpecUDP: single UDP datagrams through the UDP branch of                 *)
(* processTransport, in every mode, with every answer of the collaborators *)

\* Payloads of 16 bytes: an RTCP report of type b, the same carrying
\* "CSeq", and an RTP packet of payload type b
Rtcp(b) == <<128, b>> \o Pad(14)

RtcpCSeq(b) == <<128, b>> \o Pad(4) \o TokCSeq \o Pad(6)

\* Payloads shorter than 16 bytes
ShortPayloads == {<<>>, Pad(15), Pad(2) \o TokCSeq \o Pad(4), <<128, 200>> \o Pad(6)}

LongPayloads ==
    {Rtcp(200), Rtcp(207), RtcpCSeq(201), RtcpCSeq(0), Rtcp(99), SipMsg, Pad(16)}

PortPairs == {<<5004, 5006>>, <<5005, 5007>>, <<5060, 5061>>, <<5060, 514>>}

UDPFrames ==
    {UDP4(pp[1], pp[2], pl) : pp \in PortPairs, pl \in ShortPayloads \cup LongPayloads}
    \cup {Tagged(UDP4(5005, 5007, Rtcp(200)), 7),
          OverIPv6(UDP4(5004, 5006, RtcpCSeq(0))),
          WithDNS(UDP4(5353, 53, Pad(12)), <<1>>),
          WithDNS(UDP4(5353, 53, Pad(17)), <<1>>),
          WithDNS(UDP4(5353, 53, Rtcp(200)), <<1>>),
          WithDNS(UDP4(5354, 5300, RtcpCSeq(0)), <<1>>),
          WithDNS(UDP4(5354, 53, Rtcp(201)), <<1>>)}

UDPConfigs ==
    {[DefaultCfg EXCEPT !.mode = m, !.discardSrcIP = d] :
        m \in Modes, d \in {{}, {1}}}

\* The answers that can make a difference for the frame
OraclesFor(f) ==
    {o \in Oracles :
        /\ (o.corr # "miss" =>
                \/ f.udp.dp = 514
                \/ (Len(f.udp.pl) >= 16 /\ f.udp.pl[2] \in {200, 201, 207}
                      /\ f.udp.sp % 2 = 1 /\ f.udp.dp % 2 = 1))
        /\ (~o.dial => Len(f.udp.pl) >= 16 /\ f.udp.pl[2] = 99)}

InitUDP == InitWith(UDPConfigs, 0, MaxProbe)

NextUDP ==
    \/ \E f \in UDPFrames : \E o \in OraclesFor(f) : Process(f, o)
    \/ Send
    \/ Consume

SpecUDP == InitUDP /\ [][NextUDP]_vars

\* The processTransport calls of the frame whose UDP layer is reached
InChain(c, tag) == \E k \in 1..Len(c.chain) : c.chain[k] = tag

UDPCalls ==
    {k \in 1..Len(ctx.calls) :
        /\ InChain(ctx.calls[k].c, "UDP")
        /\ ctx.calls[k].c.src \notin ctx.calls[k].c.discardSrcIP}

Enqueues(call) == call.out.send # <<>>

\* The datagram of a call, as the claims describe it: a payload shorter
\* than 16 bytes; one of at least 16 bytes whose first byte has top two
\* bits 10; the parity of the ports
Short(c) == Len(c.udp.pl) < 16

StreamLike(c) == Len(c.udp.pl) >= 16 /\ c.udp.pl[1] \in 128..191

EvenPorts(c) == c.udp.sp % 2 = 0 /\ c.udp.dp % 2 = 0

OddPorts(c) == c.udp.sp % 2 = 1 /\ c.udp.dp % 2 = 1

LogPort(c) == c.mode = "SIPLOG" /\ c.udp.dp = 514

\* C4 as stated: a UDP payload with both ports even is never enqueued as a
\* record, whatever its content.
EvenPortsNeverEnqueued ==
    \A k \in UDPCalls :
        EvenPorts(ctx.calls[k].c) => ~Enqueues(ctx.calls[k])

\* C4 amended: in a mode other than SIP, a UDP payload of at least 16 bytes
\* whose first byte has top two bits 10 and whose ports are both even is
\* never enqueued, whatever the rest of its content, unless the mode is
\* SIPLOG and the destination port is 514; and a payload shorter than 16
\* bytes is never enqueued.
EvenPortStreamNeverEnqueued ==
    \A k \in UDPCalls :
        LET c == ctx.calls[k].c
        IN  /\ EvenPorts(c) /\ Short(c) => ~Enqueues(ctx.calls[k])
            /\ EvenPorts(c) /\ StreamLike(c) /\ c.mode # "SIP" /\ ~LogPort(c)
                 => ~Enqueues(ctx.calls[k])

\* An even-port stream payload that carries "CSeq" went through
\* processTransport in a mode other than SIP, and nothing was sent
EvenPortWitness ==
    /\ pc = "idle" /\ ctx.how = "decoded" /\ sent = <<>>
    /\ \E k \in UDPCalls :
          LET c == ctx.calls[k].c
          IN  /\ EvenPorts(c) /\ StreamLike(c) /\ c.mode # "SIP"
              /\ CSeqPos(c.udp.pl) > -1
              /\ ctx.calls[k].out.stats.udpCount = ctx.calls[k].before.udpCount + 1

\* What the RTCP branch must have done with a call: one record of
\* protocol-type 5 and the success counter, or the failure counter and no
\* record
RTCPOutcome(call, o) ==
    IF correlateRTCP(o, call.c.udp.pl).Payload # Nil
    THEN /\ Len(call.out.send) = 1
         /\ call.out.send[1].ProtoType = 5
         /\ call.out.stats.rtcpCount = call.before.rtcpCount + 1
         /\ call.out.stats.rtcpFailCount = call.before.rtcpFailCount
    ELSE /\ call.out.send = <<>>
         /\ call.out.stats.rtcpFailCount = call.before.rtcpFailCount + 1
         /\ call.out.stats.rtcpCount = call.before.rtcpCount
         /\ call.out.stats.unknownCount = call.before.unknownCount

IsRTCPReport(c) ==
    StreamLike(c) /\ c.udp.pl[2] \in {200, 201, 207} /\ OddPorts(c)

\* C6 as stated: an RTCP-shaped payload on odd ports is classified RTCP
RTCPClassified ==
    \A k \in UDPCalls :
        IsRTCPReport(ctx.calls[k].c) => RTCPOutcome(ctx.calls[k], ctx.o)

\* C6 amended: in a mode other than SIP, a UDP payload of at least 16 bytes
\* whose first byte has top two bits 10, whose second byte is 200, 201 or
\* 207 and whose ports are both odd is classified RTCP: a non-nil
\* correlation result gives exactly one record of protocol-type 5 and one
\* more RTCP success; a nil result gives one more RTCP failure and no
\* record, with no fall-through to the generic classification.
RTCPClassifiedOutsideSIPMode ==
    \A k \in UDPCalls :
        IsRTCPReport(ctx.calls[k].c) /\ ctx.calls[k].c.mode # "SIP"
            => RTCPOutcome(ctx.calls[k], ctx.o)

\* A correlated RTCP report was sent to the queue as a record of type 5
RTCPWitness ==
    /\ Len(sent) = 1 /\ sent[1].ProtoType = 5 /\ sent[1].Payload = RtcpJSON
    /\ stats.rtcpCount = 1
    /\ \E k \in UDPCalls : IsRTCPReport(ctx.calls[k].c)

\* C7: a UDP layer whose payload is shorter than 16 bytes is always dropped:
\* in every mode, for every port pair, content and layer chain,
\* processTransport enqueues no record and leaves the UDP, RTCP, DNS and
\* unknown counters unchanged.
ShortUDPDropped ==
    \A k \in UDPCalls :
        Short(ctx.calls[k].c) =>
            /\ ~Enqueues(ctx.calls[k])
            /\ \A n \in {"udpCount", "rtcpCount", "rtcpFailCount", "dnsCount",
                         "unknownCount"} :
                  ctx.calls[k].out.stats[n] = ctx.calls[k].before[n]

\* A short datagram with a DNS layer went through in DNS-aware mode
ShortUDPWitness ==
    /\ pc = "idle" /\ ctx.how = "decoded" /\ sent = <<>>
    /\ \E k \in UDPCalls :
          /\ Short(ctx.calls[k].c)
          /\ InChain(ctx.calls[k].c, "DNS")
          /\ ctx.calls[k].c.mode = "SIPDNS"

\* The processTransport calls of the frame whose chain holds a DNS layer
\* behind the UDP layer
DNSCalls == {k \in UDPCalls : InChain(ctx.calls[k].c, "DNS")}

\* The call enqueued a record of protocol-type 53 / counted a DNS message
Enqueues53(call) ==
    \E n \in 1..Len(call.out.send) : call.out.send[n].ProtoType = 53

CountsDNS(call) == call.out.stats.dnsCount - call.before.dnsCount

\* C18 as stated: in SIPDNS mode every call whose chain holds a DNS layer
\* enqueues exactly one record of protocol-type 53 and counts one DNS
\* message, whatever the UDP layer before it holds; in the other modes a
\* DNS layer never yields a record of protocol-type 53.
DNSAlwaysClassified ==
    \A k \in DNSCalls :
        IF ctx.calls[k].c.mode = "SIPDNS"
        THEN /\ Len(ctx.calls[k].out.send) = 1
             /\ Enqueues53(ctx.calls[k])
             /\ CountsDNS(ctx.calls[k]) = 1
        ELSE ~Enqueues53(ctx.calls[k])

\* The UDP layer returns before the DNS layer is looked at (mode SIPDNS):
\* a payload shorter than 16 bytes, or one whose first byte has top two
\* bits 10 and that is an RTCP report on odd ports or has both ports even
TakenByUDP(c) ==
    \/ Short(c)
    \/ IsRTCPReport(c)
    \/ (StreamLike(c) /\ EvenPorts(c))

\* C18: in SIPDNS mode a call whose chain holds a DNS layer enqueues
\* exactly one record of protocol-type 53 and counts one DNS message when
\* the UDP layer before it does not return first; when it does (see
\* TakenByUDP) no record of protocol-type 53 is enqueued and the DNS
\* counter stays. In the other modes a DNS layer never yields a record of
\* protocol-type 53 and never counts.
DNSClassifiedBehindUDP ==
    \A k \in DNSCalls :
        LET call == ctx.calls[k]
        IN  IF call.c.mode = "SIPDNS" /\ ~TakenByUDP(call.c)
            THEN /\ Len(call.out.send) = 1
                 /\ Enqueues53(call)
                 /\ CountsDNS(call) = 1
            ELSE ~Enqueues53(call) /\ CountsDNS(call) = 0

\* In SIPDNS mode a DNS message behind a UDP payload of 17 bytes was sent
\* as a record of protocol-type 53
DNSWitness ==
    /\ cfg.mode = "SIPDNS" /\ pc = "idle" /\ stats.dnsCount = 1
    /\ Len(sent) = 1 /\ sent[1].ProtoType = 53
    /\ \E k \in DNSCalls : Len(ctx.calls[k].c.udp.pl) = 17

----------------------------------------------------------------------------
(* SpecFrag: datagrams delivered whole and in two fragments, with the      *)
(* reassemblers and the fragment sweep                                     *)

\* The two IPv4 fragments of datagram w, cut at byte cut of its IP payload
\* (a multiple of 8), with fragmentation identity id
Split4(w, id, cut) ==
    <<Frag4(id, 0, TRUE, w.proto, SubSeq(w.ippl, 1, cut)),
      Frag4(id, cut \div 8, FALSE, w.proto, SubSeq(w.ippl, cut + 1, Len(w.ippl)))>>

Split6(w, id, cut) ==
    <<Frag6(TRUE, id, 0, TRUE, w.proto, SubSeq(w.ippl, 1, cut)),
      Frag6(TRUE, id, cut \div 8, FALSE, w.proto,
            SubSeq(w.ippl, cut + 1, Len(w.ippl)))>>

TaggedAll(fs, v) == [k \in DOMAIN fs |-> Tagged(fs[k], v)]

DnsUDP == WithDNS(UDP4(5353, 53, Pad(16)), <<1>>)

\* A datagram as it arrives whole, and the fragments it arrives in
Datagrams ==
    {[whole |-> Tagged(SipUDP, 7),
      parts |-> TaggedAll(Split4(SipUDP, 2, 16), 7)],
     [whole |-> DnsUDP, parts |-> Split4(DnsUDP, 3, 16)],
     [whole |-> OverIPv6(SipUDP), parts |-> Split6(SipUDP, 4, 16)],
     [whole |-> SipTCP, parts |-> Split4(SipTCP, 5, 24)]}

\* Fragments the reassemblers refuse
BadFrags ==
    {[Frag4(6, 0, TRUE, ProtoUDP, Pad(8)) EXCEPT !.bad = TRUE],
     [Frag6(TRUE, 6, 0, TRUE, ProtoUDP, Pad(8)) EXCEPT !.bad = TRUE]}

FragFrames ==
    {Tagged(SipUDP, 7)} \cup {d.parts[1] : d \in Datagrams}
        \cup {d.parts[2] : d \in Datagrams} \cup BadFrags

FragConfigs == {[DefaultCfg EXCEPT !.mode = m] : m \in {"SIP", "SIPDNS"}}

InitFrag == InitWith(FragConfigs, 0, MaxFrames)

NextFrag ==
    \/ \E f \in FragFrames : Process(f, Quiet)
    \/ Send
    \/ Consume
    \/ FlushFragments

SpecFrag == InitFrag /\ [][NextFrag]_vars

\* What a processTransport call decided, as far as the record goes
Result(out) ==
    [enqueued |-> out.send # <<>>, ProtoType |-> out.pkt.ProtoType,
     SrcPort |-> out.pkt.SrcPort, DstPort |-> out.pkt.DstPort,
     Payload |-> out.pkt.Payload, Vlan |-> out.pkt.Vlan]

\* The call the fast path makes for datagram w arriving whole, with the
\* counters st
FastPath(w, st) ==
    processTransport(Call(w, cfg, IF InChain(w, "IPv6") THEN 10 ELSE 2,
                          w.proto, w.src), ctx.o, st)

\* The datagrams whose last fragment the frame is
WholeOf(f) == {d.whole : d \in {x \in Datagrams : x.parts[2] = Fingerprint(f)}}

\* C5: a datagram that arrives in fragments and is reassembled and
\* re-decoded is classified as the same datagram arriving whole is on the
\* fast path: enqueued or not, protocol-type, ports, payload and VLAN
\* identifier are the same.
ReassembledAsFastPath ==
    \A k \in 1..Len(ctx.calls) :
        ctx.calls[k].via = "reasm" =>
            \A w \in WholeOf(ctx.data) :
                Result(ctx.calls[k].out) = Result(FastPath(w, ctx.calls[k].before))

\* A frame is a fragment for the version-specific reassembler
IsFragment(f) ==
    \/ InChain(f, "IPv4") /\ ~IsWhole4(f)
    \/ InChain(f, "IPv6") /\ f.proto = ProtoFrag6

\* The fragments delivered so far that a reassembler accepts, by set
Offered(key) ==
    {FragOf(log[i].fp) : i \in {j \in 1..Len(log) :
        /\ IsFragment(log[j].fp) /\ ~log[j].fp.bad
        /\ FragKey(IF InChain(log[j].fp, "IPv6") THEN 6 ELSE 4, log[j].fp) = key}}

\* No set of the fragments delivered so far is complete
NoSetComplete ==
    \A i \in 1..Len(log) :
        Cover(Offered(FragKey(IF InChain(log[i].fp, "IPv6") THEN 6 ELSE 4,
                              log[i].fp)), 0) = Nil

\* C8: when the reassembler returns nil the fragment counter goes up by
\* exactly one and the frame is done with no record enqueued; when it
\* returns an error the frame is done with no record and no increment.
\* Hence after fragments that never complete a set no record is in the
\* output queue.
IncompleteSetsYieldNothing ==
    /\ ctx.defrag = "nil" =>
          /\ stats.fragCount = ctx.stats0.fragCount + 1
          /\ ctx.calls = <<>> /\ ctx.fate = "done" /\ log[Len(log)].recs = 0
    /\ ctx.defrag = "err" =>
          /\ stats.fragCount = ctx.stats0.fragCount
          /\ ctx.calls = <<>> /\ ctx.fate = "done" /\ log[Len(log)].recs = 0
    /\ (\A i \in 1..Len(log) : IsFragment(log[i].fp)) /\ NoSetComplete
          => sent = <<>> /\ queue = <<>>

\* Fragments of two sets were held, then a fragment was refused: two
\* counted, nothing enqueued
IncompleteWitness ==
    /\ Len(log) = 3 /\ ctx.defrag = "err"
    /\ stats.fragCount = 2 /\ sent = <<>>
    /\ DOMAIN frags # {}

----------------------------------------------------------------------------
(* SpecGeneric: single frames that reach the generic classification at     *)
(* the end of processTransport                                             *)

\* A payload of n bytes with the tokens of ts, pairs <<token, offset>>,
\* over filler
Text(n, ts) ==
    [k \in 1..n |->
        IF \E j \in 1..Len(ts) : k - ts[j][2] \in 1..4
        THEN LET j == CHOOSE i \in 1..Len(ts) : k - ts[i][2] \in 1..4
             IN  ts[j][1][k - ts[j][2]]
        ELSE 120]

GenericPayloads ==
    {<<>>, Pad(20), SipMsg,
     Text(24, <<<<TokSip0, 4>>>>),
     Text(16, <<<<TokSip0, 0>>, <<TokCSeq, 10>>>>),
     Text(26, <<<<TokSip0, 10>>, <<TokCSeq, 20>>>>),
     Text(22, <<<<TokSip0, 4>>, <<TokCSeq, 16>>>>),
     Text(22, <<<<TokSip0, 4>>, <<TokCSeq, 17>>>>),
     Text(26, <<<<TokCSeq, 20>>>>),
     Text(32, <<<<TokCSeq, 20>>, <<TokSip0, 26>>>>),
     Text(26, <<<<TokSip0, 10>>, <<TokCseq, 20>>>>),
     Text(30, <<<<TokCseq, 5>>, <<TokSip0, 12>>, <<TokCSeq, 25>>>>),
     Text(26, <<<<TokSip0, 2>>, <<TokSip0, 10>>, <<TokCSeq, 20>>>>),
     Text(26, <<<<TokSip0, 17>>, <<TokCSeq, 21>>>>)}

\* An IPv4 datagram of a protocol the parser has no layer for
Bare4 ==
    [NoFrame EXCEPT !.chain = <<"Eth", "IPv4">>, !.long = TRUE, !.proto = 1,
                    !.src = 1]

GenericFrames ==
    {TCP4(5060, 5060, pl) : pl \in GenericPayloads}
    \cup {UDP4(5060, 5060, pl) : pl \in {Pad(20), SipMsg,
                    Text(26, <<<<TokSip0, 10>>, <<TokCSeq, 20>>>>)}}
    \cup {SCTP4(5060, 5060, SctpSip(0, 16)), SCTP4(5060, 5060, SctpSip(5, 16)),
          SCTP4(5060, 5060, SctpPayload(0, 16)), Bare4}

GenericConfigs == {[DefaultCfg EXCEPT !.mode = m] : m \in {"SIP", "SIPRTP", "SIPDNS"}}

InitGeneric == InitWith(GenericConfigs, 0, MaxProbe)

NextGeneric ==
    \/ \E f \in GenericFrames : Process(f, Quiet)
    \/ Send
    \/ Consume

SpecGeneric == InitGeneric /\ [][NextGeneric]_vars

\* Token tok occurs in payload pl at 0-based position i
OccursAt(pl, tok, i) ==
    /\ i >= 0 /\ i + 4 <= Len(pl)
    /\ \A k \in 1..4 : pl[i + k] = tok[k]

Positions(pl, tok) == {i \in 0..Len(pl) : OccursAt(pl, tok, i)}

Least(S) == CHOOSE i \in S : \A j \in S : i <= j

\* The calls of the frame that end in the generic classification: no layer
\* of the chain returns before it
GenericCalls ==
    {k \in 1..Len(ctx.calls) :
        LET c == ctx.calls[k].c
        IN  /\ c.src \notin c.discardSrcIP
            /\ ctx.calls[k].out.fate = "ok"
            /\ (InChain(c, "UDP") =>
                  /\ Len(c.udp.pl) >= 16 /\ ~LogPort(c)
                  /\ (c.mode = "SIP" \/ ~StreamLike(c)))
            /\ ~(InChain(c, "TCP") /\ c.reassembly)
            /\ ~(InChain(c, "DNS") /\ c.mode = "SIPDNS")}

HasCSeq(pl) == Positions(pl, TokCSeq) \cup Positions(pl, TokCseq) # {}

\* C9: generic classification enqueues the record if and only if its
\* protocol-type is nonzero and its payload is non-empty; otherwise the
\* unknown counter goes up by exactly one and nothing is enqueued.  Every
\* record so enqueued has protocol-type 1 and a payload that still
\* contains "CSeq" or "Cseq".
GenericEnqueuesSIPOnly ==
    \A k \in GenericCalls :
        LET call == ctx.calls[k]
            p    == call.out.pkt
        IN  /\ Enqueues(call) <=> (p.ProtoType # 0 /\ Bytes(p.Payload) # <<>>)
            /\ Enqueues(call) =>
                  /\ call.out.send = <<p>>
                  /\ p.ProtoType = 1 /\ HasCSeq(p.Payload)
                  /\ call.out.stats.unknownCount = call.before.unknownCount
            /\ ~Enqueues(call) =>
                  call.out.stats.unknownCount = call.before.unknownCount + 1

\* A SIP record trimmed by the classification reached the consumer, and
\* nothing was counted unknown
GenericWitness ==
    /\ Len(delivered) = 1 /\ delivered[1].ProtoType = 1
    /\ HasCSeq(delivered[1].Payload)
    /\ GenericCalls # {} /\ stats.unknownCount = 0
    /\ \E k \in GenericCalls :
          Len(ctx.calls[k].c.tcp.pl) > Len(delivered[1].Payload)

\* The payload a call hands to the generic classification (TCP and UDP)
Handed(c) == IF InChain(c, "TCP") THEN c.tcp.pl ELSE c.udp.pl

\* What the claim says of payload pl: the protocol-type and the payload left
Expected(pl) ==
    IF Positions(pl, TokCSeq) \cup Positions(pl, TokCseq) = {}
    THEN [ProtoType |-> 0, Payload |-> pl]
    ELSE LET P == IF Positions(pl, TokCSeq) # {}
                  THEN Least(Positions(pl, TokCSeq))
                  ELSE Least(Positions(pl, TokCseq))
             before == {i \in Positions(pl, TokSip0) : i + 4 <= P}
         IN  IF P > 16 /\ before # {}
             THEN [ProtoType |-> 1,
                   Payload |-> SubSeq(pl, Least(before) + 4 + 1, Len(pl))]
             ELSE [ProtoType |-> 1, Payload |-> pl]

\* C10: with the first "CSeq" (or, without one, the first "Cseq") at P the
\* record is tagged SIP; when P > 16 and "Sip0" occurs before P, first at
\* S, the payload starts at S + 4; when P <= 16 or no "Sip0" precedes P it
\* is unchanged; with neither token it is unchanged and the protocol-type
\* stays 0.
Sip0PrefixStripped ==
    \A k \in GenericCalls :
        LET c == ctx.calls[k].c
            p == ctx.calls[k].out.pkt
        IN  InChain(c, "TCP") \/ InChain(c, "UDP") =>
                /\ p.ProtoType = Expected(Handed(c)).ProtoType
                /\ p.Payload = Expected(Handed(c)).Payload

\* "CSeq" at 20 behind "Sip0" at 10: the record sent starts at offset 14
Sip0Witness ==
    /\ Len(sent) = 1 /\ sent[1].ProtoType = 1
    /\ \E k \in GenericCalls :
          /\ OccursAt(Handed(ctx.calls[k].c), TokCSeq, 20)
          /\ OccursAt(Handed(ctx.calls[k].c), TokSip0, 10)
          /\ sent[1].Payload = SubSeq(Handed(ctx.calls[k].c), 15,
                                      Len(Handed(ctx.calls[k].c)))

----------------------------------------------------------------------------
(* Properties of single frames through the layer dispatch (Spec)           *)

SCTPCalls ==
    {k \in 1..Len(ctx.calls) :
        /\ InChain(ctx.calls[k].c, "SCTP")
        /\ ctx.calls[k].c.src \notin ctx.calls[k].c.discardSrcIP}

\* The call classified payload pl as the generic classification does
ClassifiedAs(call, pl) ==
    /\ call.out.pkt.Payload = Expected(pl).Payload
    /\ call.out.pkt.ProtoType = Expected(pl).ProtoType
    /\ Enqueues(call) <=> Expected(pl).ProtoType = 1

\* C12: with byte 8 of the SCTP payload 0 (DATA) the payload classified is
\* the SCTP payload from offset 16, with 64 (IDATA) from offset 20; for any
\* other value the record payload stays unset, the frame is counted unknown
\* and not enqueued.
SCTPPayloadStart ==
    \A k \in SCTPCalls :
        LET call == ctx.calls[k]
            pl   == call.c.sctp.pl
        IN  /\ Len(pl) >= 16 /\ pl[9] = 0 =>
                 ClassifiedAs(call, SubSeq(pl, 17, Len(pl)))
            /\ Len(pl) >= 20 /\ pl[9] = 64 =>
                 ClassifiedAs(call, SubSeq(pl, 21, Len(pl)))
            /\ Len(pl) >= 9 /\ pl[9] \notin {0, 64} =>
                 /\ call.out.pkt.Payload = Nil /\ ~Enqueues(call)
                 /\ call.out.stats.unknownCount = call.before.unknownCount + 1

\* An IDATA chunk with "CSeq" at offset 20 was sent as a SIP record that
\* starts with the token
SCTPWitness ==
    /\ Len(sent) = 1 /\ sent[1].ProtoType = 1
    /\ OccursAt(sent[1].Payload, TokCSeq, 0)
    /\ \E k \in SCTPCalls : ctx.calls[k].c.sctp.pl[9] = 64

\* C14: with TCP stream reassembly enabled, a processTransport call that
\* reaches a TCP layer hands the segment to the stream assembler and
\* returns: it enqueues no record and does not count the frame unknown,
\* whatever the payload holds.
TCPSegmentsGoToAssembler ==
    \A k \in 1..Len(ctx.calls) :
        LET call == ctx.calls[k]
        IN  /\ InChain(call.c, "TCP") /\ call.c.reassembly
            /\ call.c.src \notin call.c.discardSrcIP
            => /\ call.out.asm = 1
               /\ ~Enqueues(call)
               /\ call.out.stats.unknownCount = call.before.unknownCount
               /\ call.out.stats.tcpCount = call.before.tcpCount + 1

\* A TCP segment that carries a whole SIP message was handed to the
\* assembler, and nothing was sent
AssemblerWitness ==
    /\ cfg.reassembly /\ asm = 1 /\ sent = <<>> /\ pc = "idle"
    /\ \E k \in 1..Len(ctx.calls) :
          /\ InChain(ctx.calls[k].c, "TCP")
          /\ HasCSeq(ctx.calls[k].c.tcp.pl)
    /\ stats.unknownCount = 0

\* The indices the loop examined follow one another, but for the step
\* after position g, which goes to index n
JumpsOnceAt(idx, g, n) ==
    \A k \in 1..(Len(idx) - 1) : idx[k + 1] = IF k = g THEN n ELSE idx[k] + 1

\* The positions of ctx.idx at which a GRE layer of the frame as it was
\* delivered was examined
FirstTunnelAt ==
    {g \in 1..Len(ctx.idx) :
        /\ ctx.idx[g] < Len(ctx.data.chain)
        /\ ctx.data.chain[ctx.idx[g] + 1] = "GRE"
        /\ \A k \in 1..(g - 1) : ctx.idx[k] < ctx.idx[g]}

\* C16 as stated: after the redecode triggered by the first GRE layer the
\* loop examines the new chain from its first element, index 0, on; later
\* redecodes leave the index alone.
FirstTunnelRestartsAtZero ==
    ctx.offs # <<>> => \E g \in FirstTunnelAt : JumpsOnceAt(ctx.idx, g, 0)

\* C16: the redecode triggered by the first GRE layer of a frame sets the
\* index to 0 inside the loop body, and the loop statement increments it
\* before the next pass: the loop goes on with index 1 of the new chain and
\* never examines its element 0. Redecodes triggered by later GRE layers
\* replace the chain and leave the index alone, so the loop goes on behind
\* the position of that GRE layer.
FirstTunnelRestartsAtOne ==
    ctx.offs # <<>> =>
        /\ \E g \in FirstTunnelAt : JumpsOnceAt(ctx.idx, g, 1)
        /\ ctx.found

\* A frame with a tunnel inside a tunnel: two redecodes, one restart, and
\* the loop ended behind the second GRE layer
NestedTunnelWitness ==
    /\ Len(ctx.offs) = 2
    /\ ctx.idx = <<0, 1, 2, 1, 2, 3>>
    /\ "UDP" \in {ctx.f.chain[k] : k \in 1..Len(ctx.f.chain)}
    /\ pc = "idle" /\ ctx.fate = "done"

\* C19: one frame yields at most one record: a call of Process calls
\* processTransport at most once, enqueues at most one record and
\* increments the unknown counter at most once.
OneFrameOneRecord ==
    ctx.how # "none" =>
        /\ Len(ctx.calls) <= 1
        /\ log[Len(log)].recs <= 1
        /\ stats.unknownCount <= ctx.stats0.unknownCount + 1

----------------------------------------------------------------------------
(* SpecPolicy: single IPv4 datagrams with every setting of the             *)
(* fragmentation fields, and every answer of the reassembler               *)

\* The slice of the SIP datagram a fragment at offset off (units of 8
\* bytes) carries
SliceAt(off) ==
    IF off = 0 THEN SubSeq(SipUDP.ippl, 1, 16)
    ELSE SubSeq(SipUDP.ippl, 17, 24)

\* mf, fragment offset, and how the reassembler takes the fragment
FragShapes ==
    {<<TRUE, 0>>, <<FALSE, 2>>, <<TRUE, 2>>} \X {"held", "lone", "bad"}

PolicyFrames ==
    {[SipUDP EXCEPT !.df = df] : df \in BOOLEAN}
    \cup {[Frag4(1, x[1][2], x[1][1], ProtoUDP, SliceAt(x[1][2]))
              EXCEPT !.df = df, !.lone = (x[2] = "lone"), !.bad = (x[2] = "bad")] :
            x \in FragShapes, df \in BOOLEAN}

PolicyConfigs ==
    {[DefaultCfg EXCEPT !.mode = m, !.reassembly = a] :
        m \in Modes, a \in BOOLEAN}

InitPolicy == InitWith(PolicyConfigs, 0, MaxProbe)

NextPolicy ==
    \/ \E f \in PolicyFrames : Process(f, Quiet)
    \/ Send
    \/ Consume

SpecPolicy == InitPolicy /\ [][NextPolicy]_vars

\* The frame delivered last is an IPv4 datagram that went to the dispatch
IPv4Delivered ==
    /\ ctx.how = "decoded"
    /\ Len(ctx.data.chain) >= 2 /\ ctx.data.chain[2] = "IPv4"

\* C13: the IPv4 reassembler is invoked if and only if (more-fragments is
\* set or the fragment offset is nonzero) and don't-fragment is clear;
\* every other datagram goes straight to the transport demultiplexer; and
\* a datagram the reassembler returns with the length of the original is
\* processed like the fast path, with no transport-only redecode.
FragmentationPolicy ==
    IPv4Delivered =>
        LET f == ctx.data
        IN  /\ ctx.defrag # "none" <=> ((f.mf \/ f.off # 0) /\ ~f.df)
            /\ ctx.defrag = "none" =>
                  /\ Len(ctx.calls) = 1 /\ ctx.calls[1].via = "fast"
                  /\ ctx.calls[1].c.chain = f.chain
            /\ ctx.defrag = "done" /\ f.lone =>
                  /\ Len(ctx.calls) = 1 /\ ctx.calls[1].via = "same"
                  /\ ctx.calls[1].c.chain = f.chain
                  /\ Result(ctx.calls[1].out)
                        = Result(FastPath(f, ctx.calls[1].before))

\* A datagram with both don't-fragment and more-fragments set went
\* straight to the transport demultiplexer
PolicyWitness ==
    /\ IPv4Delivered /\ ctx.data.df /\ ctx.data.mf
    /\ ctx.defrag = "none" /\ Len(ctx.calls) = 1
    /\ stats.ip4Count = 1 /\ stats.fragCount = 0
----------------------------------------------------------------------------
(* SpecFilter: frames with and without a CSeq method token, under every    *)
(* discard-method list of MethodLists, with and without the dedup cache    *)

MethodLists == {<<>>, <<"options">>, <<"invite", "OPTIONS">>}

MethodTokens == {"", "INVITE", "OPTIONS", "invite"}

FilterFrames ==
    {WithMethod(SipUDP, m) : m \in MethodTokens}
        \cup {WithMethod(TCP4(5060, 5060, SipMsg), "OPTIONS"),
              WithMethod(UDP4(5060, 5060, Pad(20)), "INVITE")}

FilterConfigs ==
    {[DefaultCfg EXCEPT !.discardMethod = l, !.dedup = d] :
        l \in MethodLists, d \in BOOLEAN}

InitFilter == InitWith(FilterConfigs, 0, MaxFrames)

NextFilter ==
    \/ \E f \in FilterFrames : Process(f, Quiet)
    \/ Send
    \/ Consume

SpecFilter == InitFilter /\ [][NextFilter]_vars

\* The token of the last frame is on the configured list, upper-cased
TokenListed ==
    /\ cfg.discardMethod # <<>>
    /\ ctx.data.method # ""
    /\ \E k \in 1..Len(cfg.discardMethod) :
          Upper(cfg.discardMethod[k]) = ctx.data.method

\* C15: when a discard-method list is configured and the CSeq method token
\* of the raw frame equals one of the upper-cased configured names, Process
\* returns before layer dispatch: no layer is examined, processTransport is
\* not called, no record is enqueued and no counter of the decode path
\* changes. A frame without a token or with a token that is not listed goes
\* on to layer dispatch (unless the dedup cache dropped it first).
MethodFilterDrops ==
    ctx.how # "none" =>
        /\ ctx.how = "filtered" => TokenListed
        /\ TokenListed =>
              /\ ctx.how \in {"filtered", "dup"}
              /\ ctx.idx = <<>> /\ ctx.calls = <<>>
              /\ log[Len(log)].recs = 0
              /\ pc = "idle"
              /\ \A c \in DOMAIN stats \ {"dupCount"} : stats[c] = ctx.stats0[c]
        /\ ~TokenListed =>
              /\ ctx.how \in {"decoded", "dup"}
              /\ ctx.how = "decoded" => ctx.idx # <<>> /\ ctx.calls # <<>>

\* Of three frames the first was decoded and sent, and the second and the
\* third, whose token is listed, were dropped by the filter
FilterWitness ==
    /\ ctx.how = "filtered" /\ TokenListed
    /\ Len(cfg.discardMethod) = 2
    /\ Len(sent) = 1 /\ Len(log) = 3
    /\ log[1].how = "decoded" /\ log[2].how = "filtered"
    /\ log[3].how = "filtered"
    /\ stats.udpCount = 1

----------------------------------------------------------------------------
(* SpecLoop: the loop of Process pass by pass, for frames with up to       *)
(* MaxNest tunnels inside one another. pc = "loop": between two passes.    *)

LoopFrames ==
    {Nest(n, 1, 8) : n \in 0..MaxNest}
        \cup {Nest(n, 2, 12) : n \in 1..MaxNest}
        \cup {Nest(n, 0, 0) : n \in 1..MaxNest}
        \cup {TCP4(5060, 5060, SipMsg), GRE4(0, 0, FALSE, 0, <<>>)}

LoopConfigs == {[DefaultCfg EXCEPT !.erspan = e] : e \in BOOLEAN}

InitLoop == InitWith(LoopConfigs, 0, MaxProbe)

PcOfPass(fate) == IF fate = "run" THEN "loop" ELSE PcOf(fate)

\* Lines 204-241: Process up to the head of its loop
Enter(data, o) ==
    /\ pc = "idle"
    /\ budget.frames > 0
    /\ budget' = [budget EXCEPT !.frames = @ - 1]
    /\ UNCHANGED <<cfg, queue, hep, sent, delivered, now>>
    /\ IF DedupHit(cfg, cache, data)
       THEN /\ Land([StartRun(data, o, Inc(stats, "dupCount"), frags)
                        EXCEPT !.fate = "done"], "dup", stats)
            /\ cache' = cache
            /\ log' = Append(log, Entry(data, "dup", 1))
       ELSE /\ cache' = IF DedupApplies(cfg, data) THEN DedupSet(cache, data)
                        ELSE cache
            /\ IF MethodDiscarded(cfg, data)
               THEN /\ Land([StartRun(data, o, stats, frags)
                               EXCEPT !.fate = "done"], "filtered", stats)
                    /\ log' = Append(log, Entry(data, "filtered", 0))
               ELSE /\ ctx' = Keep(StartRun(data, o, stats, frags),
                                   "decoded", stats)
                    /\ pc' = "loop"
                    /\ log' = Append(log, Entry(data, "decoded", 0))
                    /\ UNCHANGED <<stats, frags, asm>>

\* The state after one pass of the loop body left run r: the post
\* statement i++ runs when the body fell through
AfterPass(r) ==
    /\ stats' = r.st
    /\ frags' = r.frags
    /\ asm' = asm + r.asm
    /\ pc' = PcOfPass(r.fate)
    /\ ctx' = Keep(IF r.fate = "run" THEN [r EXCEPT !.i = @ + 1] ELSE r,
                   ctx.how, ctx.stats0)

\* Line 242, condition true: one pass of the body at index ctx.i
Pass ==
    /\ pc = "loop"
    /\ ctx.i < Len(ctx.f.chain)
    /\ \E r \in {Dispatch([ctx EXCEPT !.st = stats, !.frags = frags,
                                        !.asm = 0], cfg)} : AfterPass(r)
    /\ UNCHANGED <<cfg, queue, cache, hep, sent, delivered, budget, now, log>>

\* Line 242, condition false: the loop ends and Process returns
Leave ==
    /\ pc = "loop"
    /\ ctx.i >= Len(ctx.f.chain)
    /\ pc' = "idle"
    /\ ctx' = [ctx EXCEPT !.fate = "done"]
    /\ UNCHANGED <<cfg, queue, stats, cache, frags, asm, hep, sent, delivered,
                   budget, now, log>>

\* PacketQueue <- pkt completes, processTransport returns into the loop
SendPass ==
    /\ pc = "send"
    /\ Len(queue) < QueueCap
    /\ queue' = Append(queue, ctx.pend[1])
    /\ sent' = Append(sent, ctx.pend[1])
    /\ pc' = "loop"
    /\ ctx' = [ctx EXCEPT !.fate = "run", !.pend = <<>>, !.i = @ + 1]
    /\ log' = [log EXCEPT ![Len(log)].recs = @ + 1]
    /\ UNCHANGED <<cfg, stats, cache, frags, asm, hep, delivered, budget, now>>

NextLoop ==
    \/ \E f \in LoopFrames : Enter(f, Quiet)
    \/ Pass
    \/ Leave
    \/ SendPass

\* Pass is enabled: the run is at the head of the loop with a layer left
PassReady == pc = "loop" /\ ctx.i < Len(ctx.f.chain)

\* The goroutine that runs Process keeps running: a pass that can be made
\* is made, and a loop that can end ends. The last conjunct is weak
\* fairness of Pass written out: Pass is enabled exactly in the states of
\* PassReady, and no other action is enabled there, so the steps
\* <<PassReady>>_vars are the Pass steps.
SpecLoop ==
    /\ InitLoop /\ [][NextLoop]_vars
    /\ WF_vars(Leave)
    /\ ([]<>(~PassReady) \/ []<><<PassReady>>_vars)

\* C17: the loop of Process ends for every frame. Between two passes the
\* index either goes up by one or, once per frame, on the first redecode of
\* a GRE layer, goes back to 0 and then up to 1; the decoded chain is never
\* longer than MaxChain; and a run that is between two passes eventually
\* leaves the loop (to return, to send, or by a panic), also for a frame
\* whose redecoded chains contain a GRE layer again and again.
LoopTerminates ==
    /\ [](Len(ctx.f.chain) <= MaxChain)
    /\ [][pc = "loop" /\ pc' = "loop" =>
             \/ ctx'.i = ctx.i + 1
             \/ (~ctx.found /\ ctx'.found /\ ctx'.i = 1)]_vars
    /\ [][pc = "loop" /\ pc' # "loop" => ctx'.i = ctx.i]_vars
    /\ (pc = "loop" ~> pc # "loop")

\* The loop ended after two redecodes on a chain that again ends in a
\* tunnel
LoopWitness ==
    /\ pc = "idle" /\ ctx.fate = "done"
    /\ Len(ctx.offs) = 2
    /\ ctx.f.chain = <<"Eth", "IPv4", "GRE">>
    /\ ctx.f.gre.in # <<>>
    /\ ctx.i = Len(ctx.f.chain)

====
